---------------------------- MODULE Spec2Model ----------------------------
(***************************************************************************)
(* Model of custom_components/mass/media_player.py: the MediaPlayer        *)
(* platform of the Music Assistant integration.                            *)
(*                                                                         *)
(*   - async_setup_entry and its PLAYER_ADDED handler (entity creation),   *)
(*   - one MassPlayer entity (player_id "p1"): async_on_update, the        *)
(*     QUEUE_TIME_UPDATED handler, the command methods,                    *)
(*   - _async_play_media_advanced and _get_item_by_name.                   *)
(*                                                                         *)
(* The engine (player, queue, library) is the environment: it changes by   *)
(* its own actions and is only read by the entity.  Python strings that    *)
(* the code inspects character by character are sequences of one-character *)
(* strings; the others are TLA+ strings.                                   *)
(***************************************************************************)
EXTENDS Integers, Sequences, FiniteSets, TLC

VARIABLES
    \* async_setup_entry
    mass_players,   \* ids of the players the engine knows when setup runs
    setup_done,     \* async_setup_entry has run (the listener is subscribed)
    added_ids,      \* the closure variable added_ids
    entities,       \* player id -> number of MassPlayer entities created for it
    announced,      \* ids of the PLAYER_ADDED events delivered so far
    n_events,       \* number of PLAYER_ADDED events delivered so far
    \* the engine, as seen by the entity of player "p1"
    available,      \* self.available
    player,         \* self.player
    queue,          \* mass.players.get_player_queue(player.active_source)
    \* the MassPlayer entity
    attr,           \* the _attr_* fields
    prev_time,      \* self._prev_time
    issued,         \* engine commands issued by the most recent handler call
    raised,         \* exception the most recent handler call ended with
    last,           \* the most recent step: operation, inputs, calls it made
    \* _async_play_media_advanced
    library,        \* the engine's music library
    pm              \* the play-media coroutine: position, request, locals

vars == << mass_players, setup_done, added_ids, entities, announced, n_events,
           available, player, queue, attr, prev_time, issued, raised, last,
           library, pm >>

setup_vars  == << mass_players, setup_done, added_ids, entities, announced, n_events >>
engine_vars == << available, player, queue >>
entity_vars == << attr, prev_time, issued, raised, last >>
media_vars  == << library, pm >>

\* Python's None, and a Python value that is not None.  An optional object
\* is None or its record; an optional scalar is None or Py(value).
None == << >>

Py(v) == << v >>

\* a handler call that raised nothing
NoError == "NoError"

Abs(x) == IF x < 0 THEN -x ELSE x

---------------------------------------------------------------------------
(* Bounds of the model *)

\* PLAYER_ADDED events delivered in one session
MaxEvents == 4

\* identifiers in one play_media request
MaxIds == 2

---------------------------------------------------------------------------
(* async_setup_entry *)

PlayerIds == {"p1", "p2", "p3"}

\* MassPlayer(mass, player_id) handed to async_add_entities
AddEntity(ents, id) == [ents EXCEPT ![id] = @ + 1]

\* mutant: the handler never finds the id in added_ids
AlreadyAdded_Never(id) == FALSE

\* line 111: event.object_id in added_ids
AlreadyAdded(id) == id \in added_ids

\* The body of async_setup_entry: subscribe handle_player_added, then add an
\* entity for every player of mass.players.  There is no await in it, so no
\* event is handled before the loop ends.
async_setup_entry ==
    /\ ~setup_done
    /\ setup_done' = TRUE
    /\ added_ids' = added_ids \cup mass_players
    /\ entities' = [id \in PlayerIds |->
                       IF id \in mass_players THEN entities[id] + 1 ELSE entities[id]]
    /\ UNCHANGED << mass_players, announced, n_events >>
    /\ UNCHANGED << engine_vars, entity_vars, media_vars >>

\* handle_player_added(event), event.object_id = id
handle_player_added(id) ==
    /\ setup_done
    /\ n_events < MaxEvents
    /\ n_events' = n_events + 1
    /\ announced' = announced \cup {id}
    /\ IF AlreadyAdded(id)
         THEN UNCHANGED << added_ids, entities >>
         ELSE /\ added_ids' = added_ids \cup {id}
              /\ entities' = AddEntity(entities, id)
    /\ UNCHANGED << mass_players, setup_done >>
    /\ UNCHANGED << engine_vars, entity_vars, media_vars >>

---------------------------------------------------------------------------
(* The engine: the player "p1" and the queue of its active source *)

\* self.player_id of the entity
player_id == "p1"

\* values of player.active_source: the player's own id, another queue's id,
\* a source that is no queue
Sources == {"p1", "q2", "ext"}

\* PlayerState
PlayerStates == {"PlayerState.IDLE", "PlayerState.PLAYING", "PlayerState.PAUSED"}

\* RepeatMode values
RepeatModes == {"off", "one", "all"}

\* the remaining player fields, varied together
PlayerPayloads ==
    { [volume_level |-> 0, volume_muted |-> TRUE, elapsed_time |-> 0,
       elapsed_time_last_updated |-> 10, current_url |-> None,
       group_childs |-> {}],
      [volume_level |-> 40, volume_muted |-> FALSE, elapsed_time |-> 7,
       elapsed_time_last_updated |-> 20, current_url |-> Py("http://stream/1"),
       group_childs |-> {"p2"}] }

MkPlayer(powered, state, source, pl) ==
    [powered |-> powered, state |-> state, active_source |-> source,
     volume_level |-> pl.volume_level, volume_muted |-> pl.volume_muted,
     elapsed_time |-> pl.elapsed_time,
     elapsed_time_last_updated |-> pl.elapsed_time_last_updated,
     current_url |-> pl.current_url, group_childs |-> pl.group_childs]

\* queue.current_item values: none, an item with no media item, a track with
\* version, album and album artist, a track with none of these, a radio
ItemNoMedia ==
    [uri |-> "http://file/1", duration |-> 30, image |-> None, media_item |-> None]

ItemTrackFull ==
    [uri |-> "library://track/1", duration |-> 200,
     image |-> [provider |-> "url", path |-> "http://img/1"],
     media_item |-> [media_type |-> "track", name |-> "Kiss", version |-> "Remix",
                     artists |-> << "Prince", "Sheila" >>,
                     album |-> [name |-> "Parade", artist |-> [name |-> "Prince"]]]]

ItemTrackBare ==
    [uri |-> "library://track/2", duration |-> 100,
     image |-> [provider |-> "filesystem", path |-> "/covers/2.jpg"],
     media_item |-> [media_type |-> "track", name |-> "Bare", version |-> "",
                     artists |-> << "Solo" >>, album |-> None]]

ItemTrackAlbum ==
    [uri |-> "library://track/3", duration |-> 150, image |-> None,
     media_item |-> [media_type |-> "track", name |-> "Song", version |-> "",
                     artists |-> << >>,
                     album |-> [name |-> "Sampler", artist |-> None]]]

ItemRadio ==
    [uri |-> "library://radio/1", duration |-> 0, image |-> None,
     media_item |-> [media_type |-> "radio", name |-> "Radio 1", version |-> "Live",
                     artists |-> << >>, album |-> None]]

\* queue elapsed times and QUEUE_TIME_UPDATED data, in seconds
Times == {0, 100, 103, 105, 106}

MkQueue(id, t, shuffle, repeat, item) ==
    [queue_id |-> id, elapsed_time |-> t, elapsed_time_last_updated |-> t + 1000,
     shuffle_enabled |-> shuffle, repeat_mode |-> repeat, current_item |-> item]

\* get_player_queue(id) returns the queue registered under id, if any
NewQueues(id) ==
    IF id = "ext" THEN {None}
    ELSE {None, MkQueue(id, 0, FALSE, "off", None)}

\* the engine reports a new power / playback state
EnginePlayerState ==
    /\ \E pw \in BOOLEAN, st \in PlayerStates :
         player' = [player EXCEPT !.powered = pw, !.state = st]
    /\ player' # player
    /\ last' = [op |-> "engine", arg |-> << >>, calls |-> << >>]
    /\ UNCHANGED << available, queue, attr, prev_time, issued, raised >>
    /\ UNCHANGED << setup_vars, media_vars >>

\* the engine reports new volume, position, url, group
EnginePlayerPayload ==
    /\ \E pl \in PlayerPayloads :
         player' = MkPlayer(player.powered, player.state, player.active_source, pl)
    /\ player' # player
    /\ last' = [op |-> "engine", arg |-> << >>, calls |-> << >>]
    /\ UNCHANGED << available, queue, attr, prev_time, issued, raised >>
    /\ UNCHANGED << setup_vars, media_vars >>

\* the player's active source changes
EngineActiveSource ==
    /\ \E s \in Sources : \E q \in NewQueues(s) :
         /\ player' = [player EXCEPT !.active_source = s]
         /\ queue' = q
    /\ << player', queue' >> # << player, queue >>
    /\ last' = [op |-> "engine", arg |-> << >>, calls |-> << >>]
    /\ UNCHANGED << available, attr, prev_time, issued, raised >>
    /\ UNCHANGED << setup_vars, media_vars >>

\* what the active queue plays and how: each current item with one of the
\* shuffle / repeat settings
QueueContents ==
    { [item |-> None, shuffle |-> FALSE, repeat |-> "off"],
      [item |-> ItemNoMedia, shuffle |-> TRUE, repeat |-> "off"],
      [item |-> ItemTrackFull, shuffle |-> TRUE, repeat |-> "all"],
      [item |-> ItemTrackBare, shuffle |-> FALSE, repeat |-> "one"],
      [item |-> ItemTrackAlbum, shuffle |-> FALSE, repeat |-> "all"],
      [item |-> ItemRadio, shuffle |-> TRUE, repeat |-> "one"] }

\* the active queue loads another item, changes shuffle / repeat
EngineQueueItem ==
    /\ queue # None
    /\ \E c \in QueueContents :
         queue' = [queue EXCEPT !.current_item = c.item,
                                !.shuffle_enabled = c.shuffle,
                                !.repeat_mode = c.repeat]
    /\ queue' # queue
    /\ last' = [op |-> "engine", arg |-> << >>, calls |-> << >>]
    /\ UNCHANGED << available, player, attr, prev_time, issued, raised >>
    /\ UNCHANGED << setup_vars, media_vars >>

\* the active queue's elapsed time moves
EngineQueueTime ==
    /\ queue # None
    /\ \E t \in Times :
         queue' = [queue EXCEPT !.elapsed_time = t,
                                !.elapsed_time_last_updated = t + 1000]
    /\ queue' # queue
    /\ last' = [op |-> "engine", arg |-> << >>, calls |-> << >>]
    /\ UNCHANGED << available, player, attr, prev_time, issued, raised >>
    /\ UNCHANGED << setup_vars, media_vars >>

\* the entity becomes available / unavailable
EngineAvailability ==
    /\ available' = ~available
    /\ last' = [op |-> "engine", arg |-> << >>, calls |-> << >>]
    /\ UNCHANGED << player, queue, attr, prev_time, issued, raised >>
    /\ UNCHANGED << setup_vars, media_vars >>

---------------------------------------------------------------------------
(* MassPlayer: the state projection, async_on_update *)

\* homeassistant.const
STATE_IDLE == "idle"

STATE_PLAYING == "playing"

STATE_PAUSED == "paused"

STATE_OFF == "off"

\* .const DOMAIN
MASS_DOMAIN == "mass"

STATE_MAPPING ==
    [s \in PlayerStates |->
        CASE s = "PlayerState.IDLE" -> STATE_IDLE
          [] s = "PlayerState.PLAYING" -> STATE_PLAYING
          [] s = "PlayerState.PAUSED" -> STATE_PAUSED]

\* MassPlayer.__init__
InitAttr ==
    [state |-> None, app_id |-> None, shuffle |-> None, repeat |-> None,
     group_members |-> None, volume_level |-> None, is_volume_muted |-> None,
     media_position |-> None, media_position_updated_at |-> None,
     media_image_url |-> None, media_image_remotely_accessible |-> Py(TRUE),
     media_artist |-> None, media_album_artist |-> None,
     media_album_name |-> None, media_title |-> None,
     media_content_id |-> None, media_duration |-> None]

\* from_utc_timestamp(ts): the datetime of a timestamp
from_utc_timestamp(ts) == << "datetime", ts >>

\* mass.get_image_url(image)
get_image_url(image) == << "image_url", image.provider, image.path >>

\* v / 100 as a fraction
Div100(v) == << v, 100 >>

\* ", ".join(names)
RECURSIVE JoinNames(_)
JoinNames(names) ==
    IF names = << >> THEN ""
    ELSE IF Len(names) = 1 THEN names[1]
    ELSE names[1] \o ", " \o JoinNames(Tail(names))

\* mutant: the engine state is mapped whether the player is powered or not
ProjectedState_IgnorePower(p) == STATE_MAPPING[p.state]

\* lines 204-207
ProjectedState(p) == IF p.powered THEN STATE_MAPPING[p.state] ELSE STATE_OFF

\* lines 204-223: the generic attributes
GenericAttrs(a, p, q) ==
    [a EXCEPT
       !.state = Py(ProjectedState(p)),
       !.app_id = IF q # None THEN Py(MASS_DOMAIN) ELSE Py(p.active_source),
       !.shuffle = IF q # None THEN Py(q.shuffle_enabled) ELSE None,
       !.repeat = IF q # None THEN Py(q.repeat_mode) ELSE None,
       !.group_members = Py(p.group_childs),
       !.volume_level = Py(Div100(p.volume_level)),
       !.is_volume_muted = Py(p.volume_muted),
       !.media_position =
           IF q # None THEN Py(q.elapsed_time) ELSE Py(p.elapsed_time),
       !.media_position_updated_at =
           IF q # None THEN Py(from_utc_timestamp(q.elapsed_time_last_updated))
                       ELSE Py(from_utc_timestamp(p.elapsed_time_last_updated))]

\* lines 255-264: _update_media_image_url(queue)
UpdateMediaImageUrl(a, q) ==
    IF q = None \/ q.current_item = None
      THEN [a EXCEPT !.media_image_url = None]
    ELSE IF q.current_item.image # None
      THEN [a EXCEPT !.media_image_remotely_accessible =
                         Py(q.current_item.image.provider = "url"),
                     !.media_image_url = Py(get_image_url(q.current_item.image))]
    ELSE [a EXCEPT !.media_image_url = None]

\* lines 227-253: the current media item
MediaInfo(a, p, q) ==
    LET loaded == q # None /\ q.current_item # None
                           /\ q.current_item.media_item # None
        item   == q.current_item
        mi     == q.current_item.media_item
        track  == loaded /\ mi.media_type = "track"
    IN  [a EXCEPT
           !.media_artist = IF track THEN Py(JoinNames(mi.artists)) ELSE None,
           !.media_album_artist =
               IF track /\ mi.album # None /\ mi.album.artist # None
                 THEN Py(mi.album.artist.name) ELSE None,
           !.media_album_name =
               IF track /\ mi.album # None THEN Py(mi.album.name) ELSE None,
           !.media_title =
               IF ~loaded THEN Py(p.active_source)
               ELSE IF track /\ mi.version # ""
                 THEN Py(mi.name \o " (" \o mi.version \o ")")
               ELSE Py(mi.name),
           !.media_content_id = IF loaded THEN Py(item.uri) ELSE p.current_url,
           !.media_duration = IF loaded THEN Py(item.duration) ELSE None]

\* mutant: the refresh runs whether the entity is available or not
RefreshSkipped_Never(avail) == FALSE

\* lines 199-200: if not self.available: return
RefreshSkipped(avail) == ~avail

\* async_on_update on the engine state (p, q): the attributes, _prev_time and
\* the exception it ends with.  Line 224 reads queue.elapsed_time whether
\* or not there is a queue: with queue None it raises AttributeError, after
\* lines 204-223 have assigned the generic attributes.
OnUpdate(avail, p, q, a, pt) ==
    IF RefreshSkipped(avail)
      THEN [attr |-> a, prev_time |-> pt, raised |-> NoError]
    ELSE IF q = None
      THEN [attr |-> GenericAttrs(a, p, q), prev_time |-> pt,
            raised |-> "AttributeError"]
    ELSE [attr |-> MediaInfo(UpdateMediaImageUrl(GenericAttrs(a, p, q), q), p, q),
          prev_time |-> q.elapsed_time, raised |-> NoError]

\* a refresh requested by the platform
async_on_update ==
    /\ LET r == OnUpdate(available, player, queue, attr, prev_time)
       IN  /\ attr' = r.attr
           /\ prev_time' = r.prev_time
           /\ raised' = r.raised
    /\ issued' = << >>
    /\ last' = [op |-> "async_on_update", arg |-> << >>, calls |-> << >>]
    /\ UNCHANGED << engine_vars, setup_vars, media_vars >>

---------------------------------------------------------------------------
(* MassPlayer: the QUEUE_TIME_UPDATED handler *)

\* line 170: the jump that counts as a seek, in seconds
JumpThreshold == 5

\* mutant: a jump of exactly the threshold refreshes too
BigTimeJump_Inclusive(prev, data) == Abs(prev - data) >= JumpThreshold

\* line 170
BigTimeJump(prev, data) == Abs(prev - data) > JumpThreshold

\* queue_time_updated(event), event.object_id = id, event.data = data.  The
\* engine sends the event for a queue it has.
queue_time_updated(id, data) ==
    /\ id = player.active_source => queue # None
    /\ issued' = << >>
    /\ IF id # player.active_source
         THEN /\ UNCHANGED << attr, prev_time >>
              /\ raised' = NoError
              /\ last' = [op |-> "queue_time_updated",
                          arg |-> << id, data >>,
                          calls |-> << >>]
       ELSE IF BigTimeJump(prev_time, data)
         THEN LET r == OnUpdate(available, player, queue, attr, prev_time)
              IN  /\ attr' = r.attr
                  /\ raised' = r.raised
                  /\ prev_time' = IF r.raised = NoError THEN data ELSE r.prev_time
                  /\ last' = [op |-> "queue_time_updated",
                              arg |-> << id, data >>,
                              calls |-> IF r.raised = NoError
                                          THEN << "async_on_update",
                                                  "async_write_ha_state" >>
                                          ELSE << "async_on_update" >>]
       ELSE /\ UNCHANGED attr
            /\ prev_time' = data
            /\ raised' = NoError
            /\ last' = [op |-> "queue_time_updated",
                        arg |-> << id, data >>,
                        calls |-> << >>]
    /\ UNCHANGED << engine_vars, setup_vars, media_vars >>

---------------------------------------------------------------------------
(* MassPlayer: the command methods *)

\* the methods that address the active queue, and the engine call of each
QueueCommands ==
    [async_media_play |-> "queue_command_play",
     async_media_pause |-> "queue_command_pause",
     async_media_stop |-> "queue_command_stop",
     async_media_next_track |-> "queue_command_next",
     async_media_previous_track |-> "queue_command_previous",
     async_clear_playlist |-> "queue_command_clear"]

\* positions handed to async_media_seek, in tenths of a second
SeekPositions == {0, 15, 1059, -15}

\* strings handed to async_set_repeat
RepeatStrings == {"off", "one", "all", "bogus"}

\* int(position) of a position in tenths: truncation towards zero
IntOfTenths(x) == IF x >= 0 THEN x \div 10 ELSE -((-x) \div 10)

\* mutant: every command goes to the player's own id
CommandTarget_Player(p, q) == player_id

\* "if queue := get_player_queue(self.player.active_source)": queue.queue_id,
\* else self.player_id
CommandTarget(p, q) == IF q # None THEN q.queue_id ELSE player_id

\* mutant: every string is taken for a repeat mode
IsRepeatMode_Any(str) == TRUE

\* RepeatMode(repeat) succeeds
IsRepeatMode(str) == str \in RepeatModes

\* RepeatMode(repeat): the enum member of a valid string
RepeatMode(str) == << "RepeatMode", str >>

\* one awaited engine call
Issue(cmd, target, args) == << [cmd |-> cmd, target |-> target, args |-> args] >>

Handled(op, args) ==
    /\ last' = [op |-> op, arg |-> args, calls |-> << >>]
    /\ UNCHANGED << attr, prev_time >>
    /\ UNCHANGED << engine_vars, setup_vars, media_vars >>

\* async_media_play, _pause, _stop, _next_track, _previous_track,
\* async_clear_playlist
QueueCommand(m) ==
    /\ issued' = Issue(QueueCommands[m], CommandTarget(player, queue), << >>)
    /\ raised' = NoError
    /\ Handled(m, << >>)

async_media_seek(position) ==
    /\ issued' = Issue("queue_command_seek", CommandTarget(player, queue),
                       << IntOfTenths(position) >>)
    /\ raised' = NoError
    /\ Handled("async_media_seek", << position >>)

async_set_shuffle(shuffle) ==
    /\ issued' = Issue("queue_command_shuffle", CommandTarget(player, queue),
                       << shuffle >>)
    /\ raised' = NoError
    /\ Handled("async_set_shuffle", << shuffle >>)

\* RepeatMode(repeat) is evaluated as the argument of the call: an invalid
\* string raises ValueError before queue_command_repeat is called.
async_set_repeat(repeat) ==
    /\ IF IsRepeatMode(repeat)
         THEN /\ issued' = Issue("queue_command_repeat",
                                 CommandTarget(player, queue),
                                 << RepeatMode(repeat) >>)
              /\ raised' = NoError
         ELSE /\ issued' = << >>
              /\ raised' = "ValueError"
    /\ Handled("async_set_repeat", << repeat >>)

\* the commands of the player itself: power, mute, volume up / down
async_mute_volume(mute) ==
    /\ issued' = Issue("player_command_volume_mute", player_id, << mute >>)
    /\ raised' = NoError
    /\ Handled("async_mute_volume", << mute >>)

async_volume_up ==
    /\ issued' = Issue("player_command_volume_up", player_id, << >>)
    /\ raised' = NoError
    /\ Handled("async_volume_up", << >>)

async_volume_down ==
    /\ issued' = Issue("player_command_volume_down", player_id, << >>)
    /\ raised' = NoError
    /\ Handled("async_volume_down", << >>)

async_turn_on ==
    /\ issued' = Issue("player_command_power", player_id, << TRUE >>)
    /\ raised' = NoError
    /\ Handled("async_turn_on", << >>)

async_turn_off ==
    /\ issued' = Issue("player_command_power", player_id, << FALSE >>)
    /\ raised' = NoError
    /\ Handled("async_turn_off", << >>)

---------------------------------------------------------------------------
(* Python str operations, on sequences of characters *)

UpperLetters ==
    << "A", "B", "C", "D", "E", "F", "G", "H", "I", "J", "K", "L", "M",
       "N", "O", "P", "Q", "R", "S", "T", "U", "V", "W", "X", "Y", "Z" >>

LowerLetters ==
    << "a", "b", "c", "d", "e", "f", "g", "h", "i", "j", "k", "l", "m",
       "n", "o", "p", "q", "r", "s", "t", "u", "v", "w", "x", "y", "z" >>

Digits == {"0", "1", "2", "3", "4", "5", "6", "7", "8", "9"}

LowerChar(c) ==
    IF \E i \in 1..Len(UpperLetters) : UpperLetters[i] = c
      THEN LowerLetters[CHOOSE i \in 1..Len(UpperLetters) : UpperLetters[i] = c]
      ELSE c

\* s.lower()
RECURSIVE Lower(_)
Lower(s) == IF s = << >> THEN << >> ELSE << LowerChar(Head(s)) >> \o Lower(Tail(s))

\* sub occurs in s at position i
OccursAt(s, sub, i) ==
    /\ i + Len(sub) - 1 <= Len(s)
    /\ SubSeq(s, i, i + Len(sub) - 1) = sub

\* sub in s
Contains(s, sub) == \E i \in 1..(Len(s) + 1) : OccursAt(s, sub, i)

\* s.index(sub)
IndexOf(s, sub) ==
    CHOOSE i \in 1..(Len(s) + 1) :
        /\ OccursAt(s, sub, i)
        /\ \A j \in 1..(i - 1) : ~OccursAt(s, sub, j)

\* s.replace(sub, ""), sub not empty
RECURSIVE Remove(_, _)
Remove(s, sub) ==
    IF Contains(s, sub)
      THEN SubSeq(s, 1, IndexOf(s, sub) - 1)
              \o Remove(SubSeq(s, IndexOf(s, sub) + Len(sub), Len(s)), sub)
      ELSE s

\* s.split(sep, 1), sep in s
SplitOnce(s, sep) ==
    << SubSeq(s, 1, IndexOf(s, sep) - 1),
       SubSeq(s, IndexOf(s, sep) + Len(sep), Len(s)) >>

\* s.isnumeric(), for ASCII strings
IsNumeric(s) == s # << >> /\ \A i \in 1..Len(s) : s[i] \in Digits

---------------------------------------------------------------------------
(* The engine's music library *)

\* MediaType values
T_artist == << "a", "r", "t", "i", "s", "t" >>

T_album == << "a", "l", "b", "u", "m" >>

T_track == << "t", "r", "a", "c", "k" >>

T_playlist == << "p", "l", "a", "y", "l", "i", "s", "t" >>

T_radio == << "r", "a", "d", "i", "o" >>

\* MediaType.ALL
MediaTypeAll == {T_artist, T_album, T_track, T_playlist, T_radio}

\* items of the engine: in_library tells a library item from one that only a
\* provider search finds
PlHits ==
    [media_type |-> T_playlist, item_id |-> << "1" >>, name |-> << "H", "i", "t", "s" >>,
     artists |-> << >>, uri |-> << "library://playlist/1" >>, in_library |-> TRUE]

AlHits ==
    [media_type |-> T_album, item_id |-> << "7" >>, name |-> << "H", "i", "t", "s" >>,
     artists |-> << << "P", "r", "i", "n", "c", "e" >> >>, uri |-> << "library://album/7" >>,
     in_library |-> TRUE]

TrKiss ==
    [media_type |-> T_track, item_id |-> << "4", "2" >>, name |-> << "K", "i", "s", "s" >>,
     artists |-> << << "P", "r", "i", "n", "c", "e" >> >>, uri |-> << "library://track/42" >>,
     in_library |-> TRUE]

Tr42 ==
    [media_type |-> T_track, item_id |-> << "5" >>, name |-> << "4", "2" >>,
     artists |-> << << "L", "e", "v", "e", "l" >> >>, uri |-> << "library://track/5" >>,
     in_library |-> TRUE]

TrKissMe ==
    [media_type |-> T_track, item_id |-> << "9" >>, name |-> << "K", "i", "s", "s", " ", "M", "e" >>,
     artists |-> << >>, uri |-> << "spotify://track/9" >>, in_library |-> FALSE]

AllItems == << PlHits, AlHits, TrKiss, Tr42, TrKissMe >>

\* the items of AllItems at the positions of keep, in order
RECURSIVE SubLibrary(_, _)
SubLibrary(i, keep) ==
    IF i > Len(AllItems) THEN << >>
    ELSE (IF i \in keep THEN << AllItems[i] >> ELSE << >>) \o SubLibrary(i + 1, keep)

\* the libraries tried: empty, the playlist and / or the album "Hits", the
\* tracks, a provider-only track, everything
LibraryShapes == { {}, {1}, {1, 2}, {2}, {3}, {3, 4}, {4, 5}, {1, 2, 3, 4, 5} }

Libraries == { SubLibrary(1, keep) : keep \in LibraryShapes }

\* mass.music.get_library_<kind>s(search=...).items
get_library(kind, search, lib) ==
    SelectSeq(lib, LAMBDA it : /\ it.in_library
                               /\ it.media_type = kind
                               /\ Contains(Lower(it.name), search))

\* mass.music.get_item(media_type, item_id, "library"): the item, or None for
\* MediaNotFoundError
get_item(media_type, item_id, lib) ==
    IF \E i \in 1..Len(lib) : /\ lib[i].in_library
                              /\ lib[i].media_type = media_type
                              /\ lib[i].item_id = item_id
      THEN SelectSeq(lib, LAMBDA it : /\ it.in_library
                                      /\ it.media_type = media_type
                                      /\ it.item_id = item_id)[1]
      ELSE None

\* mass.music.search(search, media_types): the results of one media type
search(kind, searchname, media_types, lib) ==
    SelectSeq(lib, LAMBDA it : /\ it.media_type = kind
                               /\ kind \in media_types
                               /\ Contains(Lower(it.name), searchname))

---------------------------------------------------------------------------
(* MassPlayer._get_item_by_name *)

\* lines 443-447: the library functions, by the kind each returns, in order
LibraryKinds == << T_playlist, T_radio, T_album, T_track, T_artist >>

\* x.__name__ of get_library_<kind>s
FuncName(kind) == << "g", "e", "t", "_", "l", "i", "b", "r", "a", "r", "y", "_" >> \o kind \o << "s" >>

\* line 453: the media types looked for in the search string, in order
Keywords == << T_artist, T_album, T_track, T_playlist >>

\* lines 440-450: library_functions, computed from the media_type argument
LibraryFunctions(media_type) ==
    SelectSeq(LibraryKinds,
              LAMBDA k : media_type = None \/ Contains(FuncName(k), Lower(media_type)))

\* the least number of a set of numbers
Least(hits) == CHOOSE k \in hits : \A j \in hits : k <= j

\* lines 453-458: index of the first keyword found in the search string, or 0
FirstKeyword(searchname) ==
    IF \E k \in 1..Len(Keywords) : Contains(searchname, Keywords[k] \o << " " >>)
      THEN Least({ k \in 1..Len(Keywords) :
                      Contains(searchname, Keywords[k] \o << " " >>) })
      ELSE 0

\* "for item in ...: if <test>: return item": the first item, or None
FirstOf(found) == IF found = << >> THEN None ELSE found[1]

\* a, or b when a is None
OrElse(a, b) == IF a # None THEN a ELSE b

\* lines 462-465: the first item of the library whose name is the search string
ExactMatch(kind, searchname, lib) ==
    FirstOf(SelectSeq(get_library(kind, searchname, lib),
                      LAMBDA it : searchname = Lower(it.name)))

\* lines 471-477: parts = (artistname, title)
ArtistTitleMatch(kind, parts, lib) ==
    FirstOf(SelectSeq(get_library(kind, parts[2], lib),
                      LAMBDA it : /\ Lower(it.name) = parts[2]
                                  /\ \E a \in 1..Len(it.artists) :
                                         Lower(it.artists[a]) = parts[1]))

\* lines 469-477 for one splitter: "artist <splitter> title"
SplitMatch(kind, searchname, splitter, lib) ==
    IF Contains(searchname, splitter)
      THEN ArtistTitleMatch(kind, SplitOnce(searchname, splitter), lib)
      ELSE None

\* lines 462-477: one library function
ScanFunction(kind, searchname, lib) ==
    OrElse(ExactMatch(kind, searchname, lib),
           IF kind \in {T_track, T_album}
             THEN OrElse(SplitMatch(kind, searchname, << " ", "-", " " >>, lib),
                         SplitMatch(kind, searchname, << " ", "b", "y", " " >>, lib))
             ELSE None)

\* lines 461-477: the library functions in order
RECURSIVE ScanLibrary(_, _, _)
ScanLibrary(funcs, searchname, lib) ==
    IF funcs = << >> THEN None
    ELSE OrElse(ScanFunction(Head(funcs), searchname, lib),
                ScanLibrary(Tail(funcs), searchname, lib))

\* line 480: [media_type] if media_type else MediaType.ALL
SearchTypes(media_type) == IF media_type # None THEN {media_type} ELSE MediaTypeAll

\* lines 479-492: the first result of the search, tracks first
SearchFallback(searchname, types, lib) ==
    FirstOf(search(T_track, searchname, types, lib)
               \o search(T_album, searchname, types, lib)
               \o search(T_playlist, searchname, types, lib)
               \o search(T_artist, searchname, types, lib)
               \o search(T_radio, searchname, types, lib))

\* lines 451-453: the keyword scan runs when no media type was given
KeywordOf(media_type, lowered) ==
    IF media_type = None THEN FirstKeyword(lowered) ELSE 0

\* line 456: media_type after the keyword scan
HintOf(kw, media_type) == IF kw # 0 THEN Keywords[kw] ELSE media_type

\* line 457: searchname after the keyword scan
SearchNameOf(kw, lowered) ==
    IF kw # 0 THEN Remove(lowered, Keywords[kw] \o << " " >>) ELSE lowered

\* what _get_item_by_name returns and where it came from
Found(scanned, fallback, kw, hint, searchname) ==
    [item |-> OrElse(scanned, fallback),
     via |-> IF scanned # None THEN "library"
             ELSE IF fallback # None THEN "search" ELSE "none",
     keyword |-> kw, media_type |-> hint, searchname |-> searchname]

\* lines 460-492: the library scan with the functions chosen at line 449,
\* then the search with the media type of line 456
Lookup(funcs, kw, hint, searchname, lib) ==
    Found(ScanLibrary(funcs, searchname, lib),
          SearchFallback(searchname, SearchTypes(hint), lib),
          kw, hint, searchname)

\* lines 451-492
AfterKeywordScan(funcs, kw, media_type, lowered, lib) ==
    Lookup(funcs, kw, HintOf(kw, media_type), SearchNameOf(kw, lowered), lib)

\* lines 439-492, searchname = name.lower()
ByLoweredName(lowered, media_type, lib) ==
    AfterKeywordScan(LibraryFunctions(media_type), KeywordOf(media_type, lowered),
                     media_type, lowered, lib)

\* _get_item_by_name(name, media_type): the item returned (or None), where it
\* came from, and the media type and search string after the keyword scan
get_item_by_name(name, media_type, lib) == ByLoweredName(Lower(name), media_type, lib)

---------------------------------------------------------------------------
(* MassPlayer._async_play_media_advanced *)

\* identifiers of a request: a URI, a number, names
Identifiers ==
    { << "s", ":", "/", "/", "1" >>,
      << "4", "2" >>,
      << "K", "i", "s", "s" >>,
      << "a", "l", "b", "u", "m", " ", "H", "i", "t", "s" >>,
      << "p", "r", "i", "n", "c", "e", " ", "-", " ", "k", "i", "s", "s" >> }

\* the media_type of a request
MediaTypeHints == {None, T_track, T_album}

\* the media_id lists of a request
MediaIdLists == UNION { [1..n -> Identifiers] : n \in 1..MaxIds }

\* QueueOption.PLAY, the default of enqueue
QueueOptionPlay == "play"

\* line 395: "://" in media_id_str
IsUri(id) == Contains(id, << ":", "/", "/" >>)

\* mutant: with a media type, the library is asked for names too
TryLibraryId_NotOnlyNumeric(id, media_type) == media_type # None

\* line 399: media_type and media_id_str.isnumeric()
TryLibraryId(id, media_type) == media_type # None /\ IsNumeric(id)

\* line 396: a URI is appended as it is
UriStep(id) == [id |-> id, uri |-> id, how |-> "uri", calls |-> << >>]

\* lines 405-406: the identifier is looked up by name; tried are the lookups
\* made before
NameStep(id, tried, named) ==
    IF named # None
      THEN [id |-> id, uri |-> named.uri, how |-> "name",
            calls |-> tried \o << "_get_item_by_name" >>]
      ELSE [id |-> id, uri |-> None, how |-> "dropped",
            calls |-> tried \o << "_get_item_by_name" >>]

\* lines 400-406: by_id is the item of mass.music.get_item, None when it
\* raised MediaNotFoundError, which is suppressed
LibraryIdStep(id, media_type, by_id, lib) ==
    IF by_id # None
      THEN [id |-> id, uri |-> by_id.uri, how |-> "library_id",
            calls |-> << "get_item" >>]
      ELSE NameStep(id, << "get_item" >>, get_item_by_name(id, media_type, lib).item)

\* lines 395-406 for one identifier: the URI appended (None when the
\* identifier is dropped), the way it was found, the engine lookups made
ResolveOne(id, media_type, lib) ==
    IF IsUri(id) THEN UriStep(id)
    ELSE IF TryLibraryId(id, media_type)
      THEN LibraryIdStep(id, media_type, get_item(media_type, id, lib), lib)
    ELSE NameStep(id, << >>, get_item_by_name(id, media_type, lib).item)

\* a URI is appended without any await
RECURSIVE SkipUris(_, _, _)
SkipUris(ids, idx, steps) ==
    IF idx <= Len(ids) /\ IsUri(ids[idx])
      THEN SkipUris(ids, idx + 1, Append(steps, UriStep(ids[idx])))
      ELSE [idx |-> idx, steps |-> steps]

\* media_uris: the URIs of the identifiers resolved so far, in order
RECURSIVE MediaUris(_)
MediaUris(steps) ==
    IF steps = << >> THEN << >>
    ELSE (IF Head(steps).uri # None THEN << Head(steps).uri >> ELSE << >>)
            \o MediaUris(Tail(steps))

\* mutant: play_media is called with whatever was resolved, even nothing
NothingToPlay_Never(media_uris) == FALSE

\* line 408: if not media_uris: return
NothingToPlay(media_uris) == media_uris = << >>

\* mutant: the target is the one the active source gave when the request
\* was received
DispatchTarget_AtRequest(req) == req.received

\* lines 411-414: the active source is read when the loop is done
DispatchTarget(req) == CommandTarget(player, queue)

\* lines 408-417, reached with the loop done: no await between reading the
\* active source and the play_media call
Dispatch(media_uris, req) ==
    IF NothingToPlay(media_uris) THEN << >>
    ELSE Issue("play_media", DispatchTarget(req),
               << media_uris, req.enqueue, req.radio_mode >>)

\* the coroutine's frame; received is not a variable of the code: it records
\* the target the active source gave when the call was made
PmIdle ==
    [pc |-> "idle", media_id |-> << >>, media_type |-> None,
     enqueue |-> QueueOptionPlay, radio_mode |-> None, idx |-> 1, steps |-> << >>,
     received |-> None]

\* the coroutine has handled the identifiers before st.idx: it waits for the
\* lookups of the next one, or it is at line 408
RunTo(req, st) ==
    IF st.idx > Len(req.media_id)
      THEN /\ pm' = [req EXCEPT !.pc = "done", !.idx = st.idx, !.steps = st.steps]
           /\ issued' = Dispatch(MediaUris(st.steps), req)
      ELSE /\ pm' = [req EXCEPT !.pc = "await", !.idx = st.idx, !.steps = st.steps]
           /\ issued' = << >>

\* _async_play_media_advanced(media_id, media_type) is called: it runs to its
\* first engine lookup, or to its end when every identifier is a URI
play_media_advanced(ids, media_type) ==
    /\ pm.pc = "idle"
    /\ RunTo([PmIdle EXCEPT !.media_id = ids, !.media_type = media_type,
                          !.received = CommandTarget(player, queue)],
             SkipUris(ids, 1, << >>))
    /\ raised' = NoError
    /\ last' = [op |-> "_async_play_media_advanced", arg |-> << ids, media_type >>,
                calls |-> << >>]
    /\ UNCHANGED << attr, prev_time, library >>
    /\ UNCHANGED << engine_vars, setup_vars >>

\* the lookups of identifier pm.idx have answered with the step one
Resumed(one) ==
    /\ RunTo(pm, SkipUris(pm.media_id, pm.idx + 1, Append(pm.steps, one)))
    /\ last' = [op |-> "_async_play_media_advanced",
                arg |-> << pm.media_id, pm.media_type >>, calls |-> one.calls]

\* the engine answers the lookups of identifier pm.idx: the coroutine goes
\* on to the next lookup, or to its end
play_media_resume ==
    /\ pm.pc = "await"
    /\ Resumed(ResolveOne(pm.media_id[pm.idx], pm.media_type, library))
    /\ raised' = NoError
    /\ UNCHANGED << attr, prev_time, library >>
    /\ UNCHANGED << engine_vars, setup_vars >>

\* the finished call is forgotten: the service can be called again
play_media_returned ==
    /\ pm.pc = "done"
    /\ pm' = PmIdle
    /\ last' = [op |-> "returned", arg |-> << >>, calls |-> << >>]
    /\ UNCHANGED << attr, prev_time, issued, raised, library >>
    /\ UNCHANGED << engine_vars, setup_vars >>

---------------------------------------------------------------------------
(* Specifications *)

\* before async_setup_entry: the engine knows any set of players
InitSetupVars ==
    /\ mass_players \in SUBSET PlayerIds
    /\ setup_done = FALSE
    /\ added_ids = {}
    /\ entities = [id \in PlayerIds |-> 0]
    /\ announced = {}
    /\ n_events = 0

\* after async_setup_entry with the player "p1" known
SetupDoneVars ==
    /\ mass_players = {player_id}
    /\ setup_done = TRUE
    /\ added_ids = {player_id}
    /\ entities = [id \in PlayerIds |-> IF id = player_id THEN 1 ELSE 0]
    /\ announced = {}
    /\ n_events = 0

\* the engine has no queue for the player yet
InitEngineVars ==
    /\ available = TRUE
    /\ player = MkPlayer(TRUE, "PlayerState.IDLE", player_id,
                         CHOOSE pl \in PlayerPayloads : pl.volume_level = 0)
    /\ queue = None

\* MassPlayer.__init__
InitEntityVars ==
    /\ attr = InitAttr
    /\ prev_time = 0
    /\ issued = << >>
    /\ raised = NoError
    /\ last = [op |-> "__init__", arg |-> << >>, calls |-> << >>]

InitSetup ==
    /\ InitSetupVars
    /\ InitEngineVars
    /\ InitEntityVars
    /\ library = << >>
    /\ pm = PmIdle

Init ==
    /\ SetupDoneVars
    /\ InitEngineVars
    /\ InitEntityVars
    /\ library = << >>
    /\ pm = PmIdle

InitMedia ==
    /\ SetupDoneVars
    /\ InitEngineVars
    /\ InitEntityVars
    /\ library \in Libraries
    /\ pm = PmIdle

\* entity creation
NextSetup ==
    \/ async_setup_entry
    \/ \E id \in PlayerIds : handle_player_added(id)

SpecSetup == InitSetup /\ [][NextSetup]_vars

\* the state projection
NextProjector ==
    \/ async_on_update
    \/ EnginePlayerState
    \/ EnginePlayerPayload
    \/ EngineActiveSource
    \/ EngineQueueItem
    \/ EngineAvailability

SpecProjector == Init /\ [][NextProjector]_vars

\* the time updates of the active queue
NextEvents ==
    \/ \E id \in Sources, t \in Times : queue_time_updated(id, t)
    \/ async_on_update
    \/ EngineActiveSource
    \/ EngineQueueTime
    \/ EngineAvailability

SpecEvents == Init /\ [][NextEvents]_vars

\* the commands
NextCommands ==
    \/ \E m \in DOMAIN QueueCommands : QueueCommand(m)
    \/ \E position \in SeekPositions : async_media_seek(position)
    \/ \E shuffle \in BOOLEAN : async_set_shuffle(shuffle)
    \/ \E repeat \in RepeatStrings : async_set_repeat(repeat)
    \/ \E mute \in BOOLEAN : async_mute_volume(mute)
    \/ async_volume_up
    \/ async_volume_down
    \/ async_turn_on
    \/ async_turn_off
    \/ EngineActiveSource

SpecCommands == Init /\ [][NextCommands]_vars

\* the play_media service
NextMedia ==
    \/ \E ids \in MediaIdLists, mt \in MediaTypeHints : play_media_advanced(ids, mt)
    \/ play_media_resume
    \/ play_media_returned
    \/ EngineActiveSource

SpecMedia == InitMedia /\ [][NextMedia]_vars

\* everything the created entity does
Next ==
    \/ NextProjector
    \/ NextEvents
    \/ NextCommands
    \/ NextMedia

Spec == InitMedia /\ [][Next]_vars

---------------------------------------------------------------------------
(* Claims *)

\* C1: once async_setup_entry has run, every player id known at startup or
\* announced by a PLAYER_ADDED event has exactly one entity, whatever the
\* events and their repeats, and no other id has any.
C1_OneEntityPerPlayerId ==
    /\ ~setup_done => \A id \in PlayerIds : entities[id] = 0
    /\ setup_done =>
         \A id \in PlayerIds :
            entities[id] = IF id \in mass_players \cup announced THEN 1 ELSE 0

\* C1 witness: after setup, an event repeated, one for a player known at
\* startup and one for a new player have been handled.
C1_Witness ==
    /\ setup_done
    /\ n_events > Cardinality(announced)
    /\ announced \cap mass_players # {}
    /\ announced \ mass_players # {}
    /\ \A id \in announced : entities[id] = 1

\* C2: a QUEUE_TIME_UPDATED event calls async_on_update and then
\* async_write_ha_state if and only if its object_id is the player's active
\* source and its data differs from _prev_time by more than 5; a matching
\* event leaves _prev_time at its data, an event of another source changes
\* neither the attributes nor _prev_time; a refresh of an available entity
\* leaves _prev_time at the queue's elapsed time.
C2_TimeUpdateDebounce ==
    [][ /\ last'.op = "queue_time_updated" =>
            LET matches == last'.arg[1] = player.active_source
                jump == Abs(prev_time - last'.arg[2]) > 5
            IN  /\ (matches /\ jump) <=>
                       last'.calls = << "async_on_update", "async_write_ha_state" >>
                /\ ~(matches /\ jump) => last'.calls = << >> /\ attr' = attr
                /\ (matches /\ jump /\ available) =>
                       attr'.media_position = Py(queue.elapsed_time)
                /\ matches => prev_time' = last'.arg[2]
                /\ ~matches => prev_time' = prev_time
        /\ (last'.op = "async_on_update" /\ available /\ queue # None) =>
               prev_time' = queue.elapsed_time
      ]_vars

\* C2 witness: an event of the active source with data 106 has refreshed the
\* entity.
C2_Witness ==
    /\ last.op = "queue_time_updated"
    /\ last.arg[1] = player.active_source
    /\ last.arg[2] = 106
    /\ last.calls = << "async_on_update", "async_write_ha_state" >>
    /\ prev_time = 106
    /\ attr.media_position = Py(queue.elapsed_time)

\* the commands that address the active queue
QueueScopedOps ==
    (DOMAIN QueueCommands) \cup {"async_media_seek", "async_set_shuffle",
                                 "async_set_repeat"}

EngineCallOf(op) ==
    CASE op = "async_media_seek" -> "queue_command_seek"
      [] op = "async_set_shuffle" -> "queue_command_shuffle"
      [] op = "async_set_repeat" -> "queue_command_repeat"
      [] OTHER -> QueueCommands[op]

\* C3 as stated: each of the nine commands issues exactly one engine command,
\* whose target is the queue's id when the active source has a queue and the
\* player's id otherwise, and never the player's id while a queue exists.
C3_AsStated ==
    last.op \in QueueScopedOps =>
        /\ Len(issued) = 1
        /\ issued[1].target = IF queue # None THEN queue.queue_id ELSE player_id
        /\ queue # None => issued[1].target # player_id

\* C3 amended: each of the nine commands issues exactly one engine command,
\* except repeat-set with a string that is no repeat mode, which issues none;
\* the target is the queue's queue_id when the active source has a queue
\* (the player's own id when that queue is the player's own) and the
\* player's id otherwise.
C3_CommandTarget ==
    last.op \in QueueScopedOps =>
        IF last.op = "async_set_repeat" /\ last.arg[1] \notin {"off", "one", "all"}
          THEN issued = << >>
          ELSE /\ Len(issued) = 1
               /\ issued[1].cmd = EngineCallOf(last.op)
               /\ issued[1].target =
                      IF queue # None THEN queue.queue_id ELSE player_id
               /\ (queue # None /\ queue.queue_id # player_id) =>
                      issued[1].target # player_id

\* C3 witness: play was sent to the queue of another player, the active
\* source.
C3_Witness ==
    /\ last.op = "async_media_play"
    /\ queue # None
    /\ queue.queue_id = "q2"
    /\ issued = << [cmd |-> "queue_command_play", target |-> "q2", args |-> << >>] >>

\* C4: when no identifier of the request resolves (none is a URI, no library
\* lookup by id succeeds, no name resolves), the finished call has an empty
\* URI list, has issued no play_media command and has raised nothing.
C4_EmptyResolution ==
    (/\ pm.pc = "done"
     /\ \A i \in 1..Len(pm.media_id) :
           /\ ~IsUri(pm.media_id[i])
           /\ (pm.media_type # None /\ IsNumeric(pm.media_id[i])) =>
                  get_item(pm.media_type, pm.media_id[i], library) = None
           /\ get_item_by_name(pm.media_id[i], pm.media_type, library).item = None)
    => /\ MediaUris(pm.steps) = << >>
       /\ issued = << >>
       /\ raised = NoError

\* C4 witness: a call with two identifiers, one of them numeric with a media
\* type given, has finished with nothing resolved.
C4_Witness ==
    /\ pm.pc = "done"
    /\ Len(pm.media_id) = 2
    /\ pm.media_type # None
    /\ \E i \in 1..2 : IsNumeric(pm.media_id[i])
    /\ \A i \in 1..2 : pm.steps[i].how = "dropped"
    /\ issued = << >>

StateOf(s) ==
    CASE s = "PlayerState.IDLE" -> "idle"
      [] s = "PlayerState.PLAYING" -> "playing"
      [] s = "PlayerState.PAUSED" -> "paused"

\* C5: after a refresh of an available entity the state is "off" when the
\* player is not powered, whatever its playback state, and the image of the
\* playback state when it is.
C5_StateProjection ==
    (last.op = "async_on_update" /\ available) =>
        attr.state = IF player.powered THEN Py(StateOf(player.state)) ELSE Py("off")

\* C5 witness: a player that plays but is not powered was refreshed.
C5_Witness ==
    /\ last.op = "async_on_update"
    /\ available
    /\ ~player.powered
    /\ player.state = "PlayerState.PLAYING"
    /\ attr.state = Py("off")

\* C6 as stated: the refresh of an available player with no active queue ends
\* without error, with position and timestamp of the player, title the
\* active source, content id the current url, and no duration, artist, album.
C6_NoQueueRefresh ==
    (last.op = "async_on_update" /\ available /\ queue = None) =>
        /\ raised = NoError
        /\ attr.media_position = Py(player.elapsed_time)
        /\ attr.media_position_updated_at =
               Py(from_utc_timestamp(player.elapsed_time_last_updated))
        /\ attr.media_title = Py(player.active_source)
        /\ attr.media_content_id = player.current_url
        /\ attr.media_duration = None
        /\ attr.media_artist = None
        /\ attr.media_album_name = None
        /\ attr.media_album_artist = None

\* C7: a refresh requested while the entity is not available changes no
\* attribute and not _prev_time.
C7_UnavailableSkipsRefresh ==
    [][ (last'.op = "async_on_update" /\ ~available) =>
            /\ attr' = attr
            /\ prev_time' = prev_time
            /\ raised' = NoError
      ]_vars

\* C7 witness: a refresh was requested of an unavailable entity whose
\* attributes are those of an earlier engine state.
C7_Witness ==
    /\ last.op = "async_on_update"
    /\ ~available
    /\ attr.state # None
    /\ attr.state # Py(ProjectedState(player))
    /\ attr.media_title # None
    /\ attr.media_title # Py(player.active_source)

\* C8: async_set_repeat with a string that is no repeat mode raises and
\* issues no command; with a repeat mode it issues exactly one
\* queue_command_repeat, with the parsed mode.
C8_RepeatValidation ==
    last.op = "async_set_repeat" =>
        IF last.arg[1] \in {"off", "one", "all"}
          THEN /\ raised = NoError
               /\ Len(issued) = 1
               /\ issued[1].cmd = "queue_command_repeat"
               /\ issued[1].args = << << "RepeatMode", last.arg[1] >> >>
          ELSE /\ raised = "ValueError"
               /\ issued = << >>

\* C8 witness: async_set_repeat("bogus") has raised.
C8_Witness ==
    /\ last.op = "async_set_repeat"
    /\ last.arg[1] = "bogus"
    /\ raised = "ValueError"
    /\ issued = << >>

\* C9: each identifier handled so far was resolved in the fixed order: a URI
\* as it is, with no engine lookup; else, with a media type and a numeric
\* identifier, by the library lookup by id first, whose item is used when it
\* is found, and by name after a not-found, which is not raised; else by
\* name; an identifier no name resolves is dropped.
C9_ResolutionOrder ==
    /\ raised = NoError
    /\ \A i \in 1..Len(pm.steps) :
         LET id == pm.media_id[i]
             st == pm.steps[i]
             by_id == get_item(pm.media_type, id, library)
             named == get_item_by_name(id, pm.media_type, library).item
             named_uri == IF named # None THEN named.uri ELSE None
         IN  IF IsUri(id)
               THEN st.calls = << >> /\ st.uri = id
             ELSE IF pm.media_type # None /\ IsNumeric(id)
               THEN IF by_id # None
                      THEN st.calls = << "get_item" >> /\ st.uri = by_id.uri
                      ELSE /\ st.calls = << "get_item", "_get_item_by_name" >>
                           /\ st.uri = named_uri
             ELSE st.calls = << "_get_item_by_name" >> /\ st.uri = named_uri

\* C9 witness: the library lookup by id of a numeric identifier was not
\* found and the name resolved it.
C9_Witness ==
    \E i \in 1..Len(pm.steps) :
        /\ IsNumeric(pm.media_id[i])
        /\ pm.media_type # None
        /\ get_item(pm.media_type, pm.media_id[i], library) = None
        /\ pm.steps[i].calls = << "get_item", "_get_item_by_name" >>
        /\ pm.steps[i].uri # None

\* C10 as stated: with no media type given and a keyword in the lowercased
\* name, the keyword is the media type, it is stripped from the search
\* string, and an item the library scan returns is of that media type.
C10_KeywordFiltersScan ==
    \A i \in 1..Len(pm.steps) :
        LET id == pm.media_id[i]
            r == get_item_by_name(id, None, library)
        IN  (pm.media_type = None /\ ~IsUri(id) /\ r.keyword # 0) =>
                /\ r.media_type = Keywords[r.keyword]
                /\ ~Contains(r.searchname, Keywords[r.keyword] \o << " " >>)
                /\ r.via = "library" =>
                       /\ r.item.media_type = r.media_type
                       /\ pm.steps[i].uri = r.item.uri

\* the URIs the identifiers resolve to, in input order, an identifier that
\* resolves to nothing left out
RECURSIVE ResolvedUris(_, _, _)
ResolvedUris(ids, media_type, lib) ==
    IF ids = << >> THEN << >>
    ELSE (IF ResolveOne(Head(ids), media_type, lib).uri # None
            THEN << ResolveOne(Head(ids), media_type, lib).uri >>
            ELSE << >>)
            \o ResolvedUris(Tail(ids), media_type, lib)

\* C11: when the call ends with at least one identifier resolved, it has
\* issued exactly one play_media command, whose media list is the resolved
\* URIs in input order with the unresolved identifiers left out, and whose
\* target is the queue id of the active source's queue, or the player id,
\* as they are when the last lookup has answered.
C11_DispatchAfterAwaits ==
    (/\ pm.pc = "done"
     /\ last.op = "_async_play_media_advanced"
     /\ ResolvedUris(pm.media_id, pm.media_type, library) # << >>)
    => /\ Len(issued) = 1
       /\ issued[1].cmd = "play_media"
       /\ issued[1].args[1] = ResolvedUris(pm.media_id, pm.media_type, library)
       /\ issued[1].target = (IF queue # None THEN queue.queue_id ELSE player_id)
       /\ raised = NoError

\* C11 witness: a call with two identifiers that resolve to different URIs,
\* the first by an awaited lookup, has ended after the active source changed
\* while a lookup was pending: the command's target is not the one the
\* active source gave when the call was made.
C11_Witness ==
    /\ pm.pc = "done"
    /\ last.op = "_async_play_media_advanced"
    /\ Len(pm.media_id) = 2
    /\ pm.steps[1].calls # << >>
    /\ Len(issued) = 1
    /\ Len(issued[1].args[1]) = 2
    /\ issued[1].args[1][1] # issued[1].args[1][2]
    /\ issued[1].target # pm.received
    /\ issued[1].target = "q2"

=============================================================================
